---- MODULE Spec2Model ----
(***************************************************************************)
(* A model of spiff_main.c: an employee table kept as one text file per    *)
(* slot on SPIFFS, every file access guarded by one FreeRTOS mutex.        *)
(*                                                                         *)
(* C strings are sequences of one-character strings; a file is the         *)
(* sequence of characters fprintf put in it.  A task is a FreeRTOS task    *)
(* calling the functions of the file; its position is pc[t].               *)
(***************************************************************************)
EXTENDS Integers, Sequences, FiniteSets, TLC

\* ---------------------------------------------------------------- constants
MAX_ROWS == 10
MAX_COLS == 5
MAX_FIELD_SIZE == 20

\* Bounds of the model: the calls a behaviour may issue through the budgeted
\* entry points, with one task and with several.
MaxCalls == 3
MaxParCalls == 2

Tasks == {1, 2}

\* Every index a data_%d.txt name is ever built from: num_employees can pass
\* MAX_ROWS by one per task that is past the capacity check.
FileIdx == 0 .. (MAX_ROWS + Cardinality(Tasks) - 1)

NL == "\n"

\* ------------------------------------------------------------------ records
FieldNames ==
    << "Employee_Name", "Employee_ID", "Employee_Age",
       "Employee_Position", "Employee_Salary" >>

EmployeeDetails(n, i, a, p, s) ==
    [ Employee_Name |-> n, Employee_ID |-> i, Employee_Age |-> a,
      Employee_Position |-> p, Employee_Salary |-> s ]

\* memset(employee, 0, sizeof(EmployeeDetails)): every field the empty string
ZeroRec == EmployeeDetails(<<>>, <<>>, <<>>, <<>>, <<>>)

memset_skip(employee) == employee

memset(employee) == ZeroRec

Min(a, b) == IF a < b THEN a ELSE b

\* snprintf(dst, sizeof(dst), "%s", src): at most MAX_FIELD_SIZE - 1 characters
snprintf(src) == SubSeq(src, 1, Min(Len(src), MAX_FIELD_SIZE - 1))

\* strncmp(a, b, 5) == 0
strcmp0_prefix(a, b) == SubSeq(a, 1, Min(Len(a), 5)) = SubSeq(b, 1, Min(Len(b), 5))

\* strcmp(a, b) == 0
strcmp0(a, b) == a = b

\* ------------------------------------------------------------------- codec
\* fprintf(file, "%s\n%s\n%s\n%s\n%s\n", ...)
fprintf(e) ==
    e.Employee_Name \o <<NL>> \o e.Employee_ID \o <<NL>> \o
    e.Employee_Age \o <<NL>> \o e.Employee_Position \o <<NL>> \o
    e.Employee_Salary \o <<NL>>

\* The run of characters %19[^\n] matches in s from position pos (1-based).
RECURSIVE ScanRun(_, _, _)
ScanRun(s, pos, n) ==
    IF n < MAX_FIELD_SIZE - 1 /\ pos + n <= Len(s) /\ s[pos + n] # NL
    THEN ScanRun(s, pos, n + 1)
    ELSE n

\* fscanf(file, "%19[^\n]%*c", buf): ok iff it returns 1.  An empty run (a
\* newline or the end of the file first) assigns nothing and consumes
\* nothing; otherwise %*c consumes one more character when there is one.
fscanf(s, pos) ==
    LET n == ScanRun(s, pos, 0) IN
    IF n = 0
    THEN [ ok |-> FALSE, val |-> <<>>, pos |-> pos ]
    ELSE [ ok |-> TRUE, val |-> SubSeq(s, pos, pos + n - 1),
           pos |-> IF pos + n <= Len(s) THEN pos + n + 1 ELSE pos + n ]

\* The if / else-if chain of read_employee_details: field k is scanned into
\* the caller's record; the first failure clears the whole record.
RECURSIVE ReadFields(_, _, _, _)
ReadFields(s, pos, k, employee) ==
    IF k > MAX_COLS
    THEN employee
    ELSE LET r == fscanf(s, pos) IN
         IF ~r.ok
         THEN memset(employee)
         ELSE ReadFields(s, r.pos, k + 1,
                         [employee EXCEPT ![FieldNames[k]] = r.val])

\* What read_employee_details leaves in *employee once the file is open.
Decode(s, employee) == ReadFields(s, 1, 1, employee)

\* ------------------------------------------------------------------- state
VARIABLES
    files,          \* files[i]: /spiffs/data_<i>.txt, [exists, data]
    num_employees,  \* the global counter
    spiffs_mutex,   \* 0 when free, else the task holding it
    pc,             \* pc[t]: where task t is
    loc,            \* loc[t]: the locals and arguments of task t's frames
    call,           \* call[t]: a record of the call task t is running
    prev,           \* prev[t]: a summary of the call task t ran before
    calls,          \* calls issued through the budgeted entry points
    snap            \* snap[t]: the files as they were when task t's call began

vars == << files, num_employees, spiffs_mutex, pc, loc, call, prev, calls, snap >>

NoFile == [ exists |-> FALSE, data |-> <<>> ]

NoLoc ==
    [ id |-> <<>>, emp |-> ZeroRec, idx |-> 0, i |-> 0, cur |-> ZeroRec,
      tmp |-> 0, ret |-> "done", opened |-> FALSE ]

NoCall ==
    [ op |-> "none", id |-> <<>>, idx |-> 0, emp |-> ZeroRec, n0 |-> 0,
      st |-> "none", out |-> ZeroRec, reads |-> <<>>,
      writes |-> <<>>, fail |-> FALSE, fault |-> FALSE ]

NoPrev ==
    [ op |-> "none", id |-> <<>>, idx |-> 0, emp |-> ZeroRec, st |-> "none",
      fail |-> FALSE, fault |-> FALSE ]

Summary(c) ==
    [ op |-> c.op, id |-> c.id, idx |-> c.idx, emp |-> c.emp, st |-> c.st,
      fail |-> c.fail, fault |-> c.fault ]

\* A call begins: what the counter was, and the arguments.
Begin(op, id, idx, emp) ==
    [ NoCall EXCEPT !.op = op, !.id = id, !.idx = idx, !.emp = emp,
                    !.n0 = num_employees, !.st = "run" ]

\* app_main() line 176 and the C initialisers: the mutex exists and is free,
\* the counter is 0; the partition is freshly formatted, so no file exists.
Init ==
    /\ files = [ i \in FileIdx |-> NoFile ]
    /\ num_employees = 0
    /\ spiffs_mutex = 0
    /\ pc = [ t \in Tasks |-> "idle" ]
    /\ loc = [ t \in Tasks |-> NoLoc ]
    /\ call = [ t \in Tasks |-> NoCall ]
    /\ prev = [ t \in Tasks |-> NoPrev ]
    /\ calls = 0
    /\ snap = [ t \in Tasks |-> <<>> ]

\* --------------------------------------------------------------- the mutex
\* xSemaphoreTake(spiffs_mutex, portMAX_DELAY): waits until the mutex is free
lock_nowait(t) == spiffs_mutex' = t

lock_spiffs(t) == spiffs_mutex = 0 /\ spiffs_mutex' = t

\* xSemaphoreGive(spiffs_mutex): only the holder's give releases a mutex
unlock_spiffs(t) == spiffs_mutex' = IF spiffs_mutex = t THEN 0 ELSE spiffs_mutex

\* ------------------------------------------------ write_employee_details
\* line 53: lock_spiffs()
write_lock(t) ==
    /\ pc[t] = "w_lock"
    /\ lock_spiffs(t)
    /\ pc' = [pc EXCEPT ![t] = "w_open"]
    /\ UNCHANGED << files, num_employees, loc, call, prev, calls, snap >>

\* lines 59-63: fopen returned NULL; log, unlock, return
write_open_failed_nounlock(t) ==
    /\ pc' = [pc EXCEPT ![t] = loc[t].ret]
    /\ call' = [call EXCEPT ![t].fail = TRUE, ![t].fault = TRUE,
                            ![t].st = IF loc[t].ret = "done" THEN "ioerror" ELSE @]
    /\ UNCHANGED << files, spiffs_mutex >>

\* ... a failure that comes after "w" has truncated the file
write_open_failed_trunc(t) ==
    /\ unlock_spiffs(t)
    /\ pc' = [pc EXCEPT ![t] = loc[t].ret]
    /\ call' = [call EXCEPT ![t].fail = TRUE, ![t].fault = TRUE,
                            ![t].st = IF loc[t].ret = "done" THEN "ioerror" ELSE @]
    /\ files' = [files EXCEPT ![loc[t].idx] = [ exists |-> TRUE, data |-> <<>> ]]

write_open_failed(t) ==
    /\ unlock_spiffs(t)
    /\ pc' = [pc EXCEPT ![t] = loc[t].ret]
    /\ call' = [call EXCEPT ![t].fail = TRUE, ![t].fault = TRUE,
                            ![t].st = IF loc[t].ret = "done" THEN "ioerror" ELSE @]
    /\ UNCHANGED files

\* ... with the file opened "a" instead of "w": nothing is truncated
write_file_append(t) ==
    /\ files' = [files EXCEPT ![loc[t].idx] =
                     [ exists |-> TRUE, data |-> @.data \o fprintf(loc[t].emp) ]]
    /\ unlock_spiffs(t)
    /\ pc' = [pc EXCEPT ![t] = loc[t].ret]
    /\ call' = [call EXCEPT ![t].st = IF loc[t].ret = "done" THEN "written" ELSE @]

\* lines 65-70: "w" truncates, fprintf writes the five lines, fclose, unlock
write_file(t) ==
    /\ files' = [files EXCEPT ![loc[t].idx] =
                     [ exists |-> TRUE, data |-> fprintf(loc[t].emp) ]]
    /\ unlock_spiffs(t)
    /\ pc' = [pc EXCEPT ![t] = loc[t].ret]
    /\ call' = [call EXCEPT ![t].st = IF loc[t].ret = "done" THEN "written" ELSE @]

\* lines 55-70, under the mutex; whether fopen succeeds is the file system's
\* choice, among the outcomes oks
write_open(t, oks) ==
    /\ pc[t] = "w_open"
    /\ \E ok \in oks :
         IF ok THEN write_file(t) ELSE write_open_failed(t)
    /\ UNCHANGED << num_employees, loc, prev, calls, snap >>

\* ------------------------------------------------- read_employee_details
\* line 75: lock_spiffs()
read_lock(t) ==
    /\ pc[t] = "r_lock"
    /\ lock_spiffs(t)
    /\ pc' = [pc EXCEPT ![t] = "r_open"]
    /\ UNCHANGED << files, num_employees, loc, call, prev, calls, snap >>

\* lines 81-85: fopen returned NULL; log, unlock, return.  *employee is not
\* touched.
read_open_failed(t) ==
    /\ unlock_spiffs(t)
    /\ pc' = [pc EXCEPT ![t] = loc[t].ret]
    /\ call' = [call EXCEPT ![t].fail = TRUE,
                            ![t].fault = @ \/ files[loc[t].idx].exists,
                            ![t].out = IF loc[t].ret = "done" THEN loc[t].cur ELSE @,
                            ![t].st = IF loc[t].ret = "done" THEN "ioerror" ELSE @]
    /\ loc' = [loc EXCEPT ![t].opened = FALSE]

\* lines 87-106: the five fscanf calls into *employee, fclose, unlock
read_file(t) ==
    LET e == Decode(files[loc[t].idx].data, loc[t].cur) IN
    /\ loc' = [loc EXCEPT ![t].cur = e, ![t].opened = TRUE]
    /\ unlock_spiffs(t)
    /\ pc' = [pc EXCEPT ![t] = loc[t].ret]
    /\ call' = [call EXCEPT ![t].out = IF loc[t].ret = "done" THEN e ELSE @,
                            ![t].st = IF loc[t].ret = "done" THEN "read" ELSE @]

\* lines 77-106, under the mutex: "r" fails on a file that does not exist, and
\* may fail on one that does
read_open(t, oks) ==
    /\ pc[t] = "r_open"
    /\ \E ok \in oks :
         /\ files[loc[t].idx].exists \/ ~ok
         /\ IF ok THEN read_file(t) ELSE read_open_failed(t)
    /\ UNCHANGED << files, num_employees, prev, calls, snap >>

\* An EmployeeDetails local declared without an initialiser holds whatever the
\* stack held: nothing, or an earlier frame's record.
Stale == EmployeeDetails(<<"?">>, <<"E", "1">>, <<"?">>, <<"?">>, <<"?">>)

Uninit == { ZeroRec, Stale }

\* -------------------------------------------------------- add_new_employee
is_full_off_by_one(n) == n > MAX_ROWS

\* line 128
is_full(n) == n >= MAX_ROWS

\* lines 126-139: the capacity check, then the five snprintf calls
add_new_employee(t, a) ==
    /\ pc[t] = "idle"
    /\ call' = [call EXCEPT ![t] =
          [ Begin("add", a.Employee_ID, 0, a) EXCEPT
              !.st = IF is_full(num_employees) THEN "full" ELSE "run" ]]
    /\ IF is_full(num_employees)
       THEN /\ pc' = [pc EXCEPT ![t] = "done"]
            /\ UNCHANGED loc
       ELSE /\ pc' = [pc EXCEPT ![t] = "add_write"]
            /\ loc' = [loc EXCEPT ![t].emp =
                  EmployeeDetails(snprintf(a.Employee_Name), snprintf(a.Employee_ID),
                                  snprintf(a.Employee_Age), snprintf(a.Employee_Position),
                                  snprintf(a.Employee_Salary))]
    /\ UNCHANGED << files, num_employees, spiffs_mutex, prev >>

\* line 142: write_employee_details(num_employees, &new_employee)
add_write(t) ==
    /\ pc[t] = "add_write"
    /\ loc' = [loc EXCEPT ![t].idx = num_employees, ![t].ret = "add_load"]
    /\ call' = [call EXCEPT ![t].idx = num_employees,
                            ![t].writes = Append(@, num_employees)]
    /\ pc' = [pc EXCEPT ![t] = "w_lock"]
    /\ UNCHANGED << files, num_employees, spiffs_mutex, prev, calls, snap >>

\* ... an insert that gives up when its write could not open the file
add_load_checked(t) ==
    /\ pc[t] = "add_load"
    /\ IF call[t].fail
       THEN /\ pc' = [pc EXCEPT ![t] = "done"]
            /\ call' = [call EXCEPT ![t].st = "ioerror"]
            /\ UNCHANGED loc
       ELSE /\ pc' = [pc EXCEPT ![t] = "add_store"]
            /\ loc' = [loc EXCEPT ![t].tmp = num_employees]
            /\ UNCHANGED call
    /\ UNCHANGED << files, num_employees, spiffs_mutex, prev, calls, snap >>

\* line 145, num_employees++ on a plain int: the load ...
add_load(t) ==
    /\ pc[t] = "add_load"
    /\ loc' = [loc EXCEPT ![t].tmp = num_employees]
    /\ pc' = [pc EXCEPT ![t] = "add_store"]
    /\ UNCHANGED << files, num_employees, spiffs_mutex, call, prev, calls, snap >>

\* ... a store that leaves the increment out
add_store_noinc(t) ==
    /\ pc[t] = "add_store"
    /\ num_employees' = loc[t].tmp
    /\ call' = [call EXCEPT ![t].st = "added"]
    /\ pc' = [pc EXCEPT ![t] = "done"]
    /\ UNCHANGED << files, spiffs_mutex, loc, prev, calls, snap >>

\* ... and the store; lines 147-153 log the new employee
add_store(t) ==
    /\ pc[t] = "add_store"
    /\ num_employees' = loc[t].tmp + 1
    /\ call' = [call EXCEPT ![t].st = "added"]
    /\ pc' = [pc EXCEPT ![t] = "done"]
    /\ UNCHANGED << files, spiffs_mutex, loc, prev, calls, snap >>

\* ------------------------------------- the scan of lines 111-113, 158-160
\* One iteration begins: current_employee is declared (uninitialised) and
\* read_employee_details(i, &current_employee) is called.
scan(t, id, i, back) ==
    /\ \E garbage \in Uninit :
         loc' = [loc EXCEPT ![t].id = id, ![t].i = i, ![t].idx = i,
                            ![t].cur = garbage, ![t].ret = back]
    /\ pc' = [pc EXCEPT ![t] = "r_lock"]

\* ---------------------------------------------- get_employee_details_by_id
\* line 109: the call, and the first iteration of the loop
get_employee_details_by_id(t, id) ==
    /\ pc[t] = "idle"
    /\ scan(t, id, 0, "get_cmp")
    /\ call' = [call EXCEPT ![t] = [ Begin("get", id, 0, ZeroRec) EXCEPT !.reads = <<0>> ]]
    /\ UNCHANGED << files, num_employees, spiffs_mutex, prev >>

\* lines 115-123: back from read_employee_details; on a match the record is
\* copied out, otherwise the next slot is read, and after the last the output
\* is cleared
get_cmp(t) ==
    /\ pc[t] = "get_cmp"
    /\ IF strcmp0(loc[t].cur.Employee_ID, loc[t].id)
       THEN /\ call' = [call EXCEPT ![t].out = loc[t].cur, ![t].st = "returned",
                                    ![t].idx = loc[t].i]
            /\ pc' = [pc EXCEPT ![t] = "done"]
            /\ UNCHANGED loc
       ELSE IF loc[t].i + 1 < MAX_ROWS
       THEN /\ scan(t, loc[t].id, loc[t].i + 1, "get_cmp")
            /\ call' = [call EXCEPT ![t].reads = Append(@, loc[t].i + 1)]
       ELSE /\ call' = [call EXCEPT ![t].out = memset(loc[t].cur), ![t].st = "nomatch"]
            /\ pc' = [pc EXCEPT ![t] = "done"]
            /\ UNCHANGED loc
    /\ UNCHANGED << files, num_employees, spiffs_mutex, prev, calls, snap >>

\* --------------------------------------------------- delete_employee_by_id
\* line 156: the call, and the first iteration of the loop
delete_employee_by_id(t, id) ==
    /\ pc[t] = "idle"
    /\ scan(t, id, 0, "del_cmp")
    /\ call' = [call EXCEPT ![t] = [ Begin("del", id, 0, ZeroRec) EXCEPT !.reads = <<0>> ]]
    /\ UNCHANGED << files, num_employees, spiffs_mutex, prev >>

\* lines 162-172: back from read_employee_details; on a match the record is
\* cleared and written to slot i, otherwise the next slot is read, and after
\* the last "not found" is logged
del_cmp(t) ==
    /\ pc[t] = "del_cmp"
    /\ IF strcmp0(loc[t].cur.Employee_ID, loc[t].id)
       THEN /\ loc' = [loc EXCEPT ![t].emp = memset(loc[t].cur), ![t].idx = loc[t].i,
                                  ![t].ret = "del_ret"]
            /\ call' = [call EXCEPT ![t].idx = loc[t].i,
                                    ![t].writes = Append(@, loc[t].i)]
            /\ pc' = [pc EXCEPT ![t] = "w_lock"]
       ELSE IF loc[t].i + 1 < MAX_ROWS
       THEN /\ scan(t, loc[t].id, loc[t].i + 1, "del_cmp")
            /\ call' = [call EXCEPT ![t].reads = Append(@, loc[t].i + 1)]
       ELSE /\ call' = [call EXCEPT ![t].st = "notfound"]
            /\ pc' = [pc EXCEPT ![t] = "done"]
            /\ UNCHANGED loc
    /\ UNCHANGED << files, num_employees, spiffs_mutex, prev, calls, snap >>

\* lines 166-167: back from write_employee_details; "deleted successfully"
del_ret(t) ==
    /\ pc[t] = "del_ret"
    /\ call' = [call EXCEPT ![t].st = "deleted"]
    /\ pc' = [pc EXCEPT ![t] = "done"]
    /\ UNCHANGED << files, num_employees, spiffs_mutex, loc, prev, calls, snap >>

\* ------------------------------------------- a task calls the slot store
\* write_employee_details(idx, &emp) called by a task itself (lines 194-196)
call_write(t, idx, emp) ==
    /\ pc[t] = "idle"
    /\ loc' = [loc EXCEPT ![t].idx = idx, ![t].emp = emp, ![t].ret = "done"]
    /\ call' = [call EXCEPT ![t] = [ Begin("write", <<>>, idx, emp) EXCEPT !.writes = <<idx>> ]]
    /\ pc' = [pc EXCEPT ![t] = "w_lock"]
    /\ UNCHANGED << files, num_employees, spiffs_mutex, prev >>

\* read_employee_details(idx, &out) called by a task itself; out0 is what the
\* caller's record holds at the call
call_read(t, idx, out0) ==
    /\ pc[t] = "idle"
    /\ loc' = [loc EXCEPT ![t].idx = idx, ![t].cur = out0, ![t].ret = "done"]
    /\ call' = [call EXCEPT ![t] = [ Begin("read", <<>>, idx, out0) EXCEPT !.reads = <<idx>> ]]
    /\ pc' = [pc EXCEPT ![t] = "r_lock"]
    /\ UNCHANGED << files, num_employees, spiffs_mutex, prev >>

\* The caller has the result and goes on: the frame is gone, and (keep) the
\* call is remembered as the task's previous one.
Return(t, keep) ==
    /\ pc[t] = "done"
    /\ pc' = [pc EXCEPT ![t] = "idle"]
    /\ prev' = IF keep THEN [prev EXCEPT ![t] = Summary(call[t])] ELSE prev
    /\ call' = [call EXCEPT ![t] = NoCall]
    /\ loc' = [loc EXCEPT ![t] = NoLoc]
    /\ snap' = [snap EXCEPT ![t] = <<>>]
    /\ UNCHANGED << files, num_employees, spiffs_mutex, calls >>

\* ------------------------------------------------------------------ inputs
sE1 == <<"E", "1">>
sE2 == <<"E", "2">>

Ids == { sE1, sE2 }

RecA == EmployeeDetails(<<"A">>, sE1, <<"3">>, <<"P">>, <<"5">>)
\* a record whose age is the empty string
RecGap == EmployeeDetails(<<"B">>, sE2, <<>>, <<"Q">>, <<"6">>)
\* a name of more than MAX_FIELD_SIZE - 1 characters
LongName == [ k \in 1 .. (MAX_FIELD_SIZE + 2) |-> "x" ]
ArgsLong == EmployeeDetails(LongName, sE2, <<"4">>, <<"Q">>, <<"6">>)

WriteRecs == { RecA, RecGap }
InsertArgs == { RecA, RecGap, ArgsLong }
IdxInputs == { 0, 1 }

\* ------------------------------------------------------- the specifications
\* A step inside a call
Step(t, oks) ==
    \/ write_lock(t) \/ write_open(t, oks)
    \/ read_lock(t) \/ read_open(t, oks)
    \/ add_write(t) \/ add_load(t) \/ add_store(t)
    \/ get_cmp(t)
    \/ del_cmp(t) \/ del_ret(t)

\* A task calls one of the five functions, its arguments drawn from the
\* given sets
CallWith(t, max, ins, ids, idxs, recs, outs) ==
    /\ calls < max
    /\ calls' = calls + 1
    /\ \/ \E a \in ins : add_new_employee(t, a)
       \/ \E id \in ids : get_employee_details_by_id(t, id)
       \/ \E id \in ids : delete_employee_by_id(t, id)
       \/ \E i \in idxs, e \in recs : call_write(t, i, e)
       \/ \E i \in idxs, o \in outs : call_read(t, i, o)

\* Several tasks, each calling any of the functions at any time
ParCall(t) ==
    /\ CallWith(t, MaxParCalls, {RecA, ArgsLong}, {sE1}, {0}, {RecGap}, {Stale})
    /\ UNCHANGED snap

Next == \E t \in Tasks : ParCall(t) \/ Step(t, BOOLEAN) \/ Return(t, FALSE)

Spec == Init /\ [][Next]_vars

\* One task alone, over more arguments; the files at the call are remembered
Call(t) ==
    /\ CallWith(t, MaxCalls, InsertArgs, Ids, IdxInputs, WriteRecs, Uninit)
    /\ snap' = [snap EXCEPT ![t] = files]

NextSeq == Call(1) \/ Step(1, BOOLEAN) \/ Return(1, TRUE)

SpecSeq == Init /\ [][NextSeq]_vars

\* Several tasks that only insert, as often as they like, on a file system
\* whose fopen does not fail
InsStep(t) ==
    \/ write_lock(t) \/ write_open(t, {TRUE})
    \/ add_write(t) \/ add_load(t) \/ add_store(t)

InsCall(t) == add_new_employee(t, RecA) /\ UNCHANGED << calls, snap >>

NextIns == \E t \in Tasks : InsCall(t) \/ InsStep(t) \/ Return(t, FALSE)

SpecIns == Init /\ [][NextIns]_vars

\* One task that only inserts, as often as it likes; fopen may fail
CapCall(t) ==
    /\ add_new_employee(t, RecA)
    /\ snap' = [snap EXCEPT ![t] = files]
    /\ UNCHANGED calls

CapStep(t) ==
    \/ write_lock(t) \/ write_open(t, BOOLEAN)
    \/ add_write(t) \/ add_load(t) \/ add_store(t)

NextCap == CapCall(1) \/ CapStep(1) \/ Return(1, TRUE)

SpecCap == Init /\ [][NextCap]_vars

\* Two tasks around one slot: the first writes RecA to slot 0 and then
\* deletes its identifier; once that write has returned, the second writes
\* another record to slot 0, directly or by an insert (num_employees is 0)
deleter(t) ==
    /\ IF prev[t].op = "none"
       THEN call_write(t, 0, RecA)
       ELSE prev[t].op = "write" /\ delete_employee_by_id(t, RecA.Employee_ID)
    /\ UNCHANGED << calls, snap >>

writer(t, first) ==
    /\ prev[t].op = "none" /\ prev[first].op = "write"
    /\ \/ call_write(t, 0, RecGap)
       \/ add_new_employee(t, ArgsLong)
    /\ UNCHANGED << calls, snap >>

RaceStep(t) ==
    \/ write_lock(t) \/ write_open(t, BOOLEAN)
    \/ read_lock(t) \/ read_open(t, BOOLEAN)
    \/ add_write(t) \/ add_load(t) \/ add_store(t)
    \/ del_cmp(t) \/ del_ret(t)

NextRace ==
    \/ deleter(1)
    \/ writer(2, 1)
    \/ \E t \in Tasks : RaceStep(t) \/ Return(t, TRUE)

SpecRace == Init /\ [][NextRace]_vars

\* Two tasks calling for ever: one calls any of the five functions (inserts
\* only while the table holds fewer than MaxLiveAdds), the other keeps
\* writing and reading slot 0, so that the mutex is contended without end
RecB == EmployeeDetails(<<"B">>, sE2, <<"4">>, <<"Q">>, <<"6">>)

MaxLiveAdds == 1

LiveCall(t) ==
    /\ \/ num_employees < MaxLiveAdds /\ add_new_employee(t, RecB)
       \/ get_employee_details_by_id(t, sE2)
       \/ delete_employee_by_id(t, sE2)
       \/ call_write(t, 0, RecB)
       \/ call_read(t, 0, ZeroRec)
    /\ UNCHANGED << calls, snap >>

SlotCall(t) ==
    /\ \/ call_write(t, 0, RecB)
       \/ call_read(t, 0, ZeroRec)
    /\ UNCHANGED << calls, snap >>

NextLive ==
    \/ LiveCall(1)
    \/ SlotCall(2)
    \/ \E t \in Tasks : Step(t, BOOLEAN) \/ Return(t, FALSE)

\* The scheduler lets every task that can take a step take one (tasks of one
\* priority are time-sliced), and the mutex goes to every task that keeps
\* asking for it (xSemaphoreGive readies the task that waits for it)
Fairness ==
    \A t \in Tasks :
        /\ WF_vars(Step(t, BOOLEAN))
        /\ SF_vars(write_lock(t) \/ read_lock(t))

SpecLive == Init /\ [][NextLive]_vars /\ Fairness

\* ----------------------------------------------------------------- app_main
\* lines 180-191: EmployeeDetails employees[MAX_ROWS]
employees ==
    << EmployeeDetails(<< "J", "o", "h", "n", "D", "o", "e" >>,
           << "E", "M", "P", "0", "0", "1" >>, << "3", "0" >>,
           << "S", "e", "n", "i", "o", "r", "E", "n", "g", "i", "n", "e", "e", "r" >>,
           << "5", "0", "0", "0", "0" >>),
       EmployeeDetails(<< "J", "a", "n", "e", "S", "m", "i", "t", "h" >>,
           << "E", "M", "P", "0", "0", "2" >>, << "3", "5" >>,
           << "M", "a", "n", "a", "g", "e", "r" >>,
           << "7", "0", "0", "0", "0" >>),
       EmployeeDetails(<< "R", "a", "v", "i" >>,
           << "E", "M", "P", "0", "0", "3" >>, << "2", "8" >>,
           << "S", "e", "n", "i", "o", "r", "E", "x", "e", "c", "u", "t", "i", "v", "e" >>,
           << "4", "0", "0", "0", "0" >>),
       EmployeeDetails(<< "R", "a", "j", "u" >>,
           << "E", "M", "P", "0", "0", "4" >>, << "2", "9" >>,
           << "J", "u", "n", "i", "o", "r", "E", "x", "e", "c", "u", "t", "i", "v", "e" >>,
           << "3", "0", "0", "0", "0" >>),
       EmployeeDetails(<< "V", "i", "v", "e", "k" >>,
           << "E", "M", "P", "0", "0", "5" >>, << "2", "1" >>,
           << "C", "E", "O" >>,
           << "1", "0", "0", "0", "0", "0" >>),
       EmployeeDetails(<< "M", "o", "n", "o", "j" >>,
           << "E", "M", "P", "0", "0", "6" >>, << "2", "5" >>,
           << "M", "a", "r", "k", "e", "t", "i", "n", "g", "E", "x", "e", "c", "u", "t", "i", "v", "e" >>,
           << "4", "0", "0", "0", "0" >>),
       EmployeeDetails(<< "H", "a", "r", "i", "s", "h" >>,
           << "E", "M", "P", "0", "0", "7" >>, << "2", "5" >>,
           << "J", "u", "n", "i", "o", "r", "E", "n", "g", "i", "n", "e", "e", "r" >>,
           << "4", "0", "0", "0", "0" >>),
       EmployeeDetails(<< "A", "n", "k", "i", "t" >>,
           << "E", "M", "P", "0", "0", "8" >>, << "2", "6" >>,
           << "S", "a", "l", "e", "s", "E", "x", "e", "c", "u", "t", "i", "v", "e" >>,
           << "3", "0", "0", "0", "0" >>),
       EmployeeDetails(<< "S", "a", "i" >>,
           << "E", "M", "P", "0", "0", "9" >>, << "2", "6" >>,
           << "D", "e", "v", "e", "l", "o", "p", "e", "r" >>,
           << "2", "5", "0", "0", "0" >>),
       EmployeeDetails(<< "E", "s", "w", "a", "r" >>,
           << "E", "M", "P", "0", "1", "0" >>, << "2", "8" >>,
           << "T", "e", "a", "m", "L", "e", "a", "d" >>,
           << "4", "0", "0", "0", "0" >>) >>

\* lines 199-202: the arguments of the four add_new_employee calls
new_employees ==
    << EmployeeDetails(<< "N", "e", "w", " ", "E", "m", "p", "l", "o", "y", "e", "e", " ", "1" >>,
           << "E", "M", "P", "0", "1", "1" >>, << "2", "5" >>,
           << "N", "e", "w", " ", "P", "o", "s", "i", "t", "i", "o", "n", " ", "1" >>,
           << "6", "0", "0", "0", "0" >>),
       EmployeeDetails(<< "N", "e", "w", " ", "E", "m", "p", "l", "o", "y", "e", "e", " ", "2" >>,
           << "E", "M", "P", "0", "1", "2" >>, << "2", "7" >>,
           << "N", "e", "w", " ", "P", "o", "s", "i", "t", "i", "o", "n", " ", "2" >>,
           << "6", "5", "0", "0", "0" >>),
       EmployeeDetails(<< "N", "e", "w", " ", "E", "m", "p", "l", "o", "y", "e", "e", " ", "3" >>,
           << "E", "M", "P", "0", "1", "3" >>, << "2", "9" >>,
           << "N", "e", "w", " ", "P", "o", "s", "i", "t", "i", "o", "n", " ", "3" >>,
           << "7", "0", "0", "0", "0" >>),
       EmployeeDetails(<< "N", "e", "w", " ", "E", "m", "p", "l", "o", "y", "e", "e", " ", "4" >>,
           << "E", "M", "P", "0", "1", "4" >>, << "3", "0" >>,
           << "N", "e", "w", " ", "P", "o", "s", "i", "t", "i", "o", "n", " ", "4" >>,
           << "7", "5", "0", "0", "0" >>) >>

\* "EMP006" of line 205 and "EMP009" of line 209
EMP006 == << "E", "M", "P", "0", "0", "6" >>
EMP009 == << "E", "M", "P", "0", "0", "9" >>

NumAdds == Len(new_employees)

\* lines 193-210: the calls of app_main, one after the other; calls counts
\* the calls made so far
app_main(t) ==
    /\ pc[t] = "idle"
    /\ calls < MAX_ROWS + NumAdds + 2
    /\ calls' = calls + 1
    /\ snap' = [snap EXCEPT ![t] = files]
    /\ IF calls < MAX_ROWS
       THEN call_write(t, calls, employees[calls + 1])
       ELSE IF calls < MAX_ROWS + NumAdds
       THEN add_new_employee(t, new_employees[calls - MAX_ROWS + 1])
       ELSE IF calls = MAX_ROWS + NumAdds
       THEN delete_employee_by_id(t, EMP006)
       ELSE get_employee_details_by_id(t, EMP009)

\* app_main run by one task; any fopen may fail
NextMain == app_main(1) \/ Step(1, BOOLEAN) \/ Return(1, FALSE)

SpecMain == Init /\ [][NextMain]_vars

\* ------------------------------------------------------------- properties
Rows == 0 .. (MAX_ROWS - 1)

\* Task t is between lock_spiffs() and unlock_spiffs()
InBody(t) == pc[t] \in { "w_open", "r_open" }

AtLock(t) == pc[t] \in { "w_lock", "r_lock" }

\* The record slot i of store f holds: what a read with a cleared output
\* record gives, and nothing when there is no file
SlotRec(f, i) == IF f[i].exists THEN Decode(f[i].data, ZeroRec) ELSE ZeroRec

\* The slots of store f whose identifier is id
Matches(f, id) == { i \in Rows : SlotRec(f, i).Employee_ID = id }

Lowest(S) == CHOOSE i \in S : \A j \in S : i <= j

UpTo(n) == [ k \in 1 .. (n + 1) |-> k - 1 ]

\* How many of the five fields fscanf can take from s, one after the other
RECURSIVE Scanned(_, _, _)
Scanned(s, pos, k) ==
    IF k > MAX_COLS THEN 0
    ELSE LET r == fscanf(s, pos) IN
         IF r.ok THEN 1 + Scanned(s, r.pos, k + 1) ELSE 0

WithinWidth(e) == \A k \in 1 .. MAX_COLS : Len(e[FieldNames[k]]) < MAX_FIELD_SIZE

\* C1: at most one task is between lock_spiffs and unlock_spiffs, whatever
\* the tasks call and on whatever slots.
C1_MutualExclusion ==
    \A t1, t2 \in Tasks : InBody(t1) /\ InBody(t2) => t1 = t2

\* C1's case: one task is in a body while another waits for the mutex.
C1_Witness ==
    \E t1, t2 \in Tasks :
        t1 # t2 /\ InBody(t1) /\ AtLock(t2) /\ spiffs_mutex = t1

\* C2: a task holds the mutex only inside a slot I/O body; once
\* write_employee_details or read_employee_details has returned, on any
\* path, the caller does not hold it.
C2_ReleasedOnReturn ==
    \A t \in Tasks : spiffs_mutex = t => InBody(t)

\* C2's case: a call has come back through an fopen failure, and the mutex
\* is free.
C2_Witness ==
    \E t \in Tasks :
        /\ pc[t] = "done" /\ call[t].op \in { "write", "read" }
        /\ call[t].st = "ioerror" /\ spiffs_mutex = 0

\* C3: 0 <= num_employees <= MAX_ROWS in every reachable state, with any
\* number of tasks.
C3_CounterRange == num_employees \in 0 .. MAX_ROWS

\* C4: a read of slot i right after a write of record r to slot i, both
\* fopen calls succeeding, gives back r in all five fields.
C4_RoundTrip ==
    \A t \in Tasks :
        ( /\ pc[t] = "done" /\ call[t].op = "read" /\ ~call[t].fail
          /\ prev[t].op = "write" /\ ~prev[t].fail
          /\ prev[t].idx = call[t].idx /\ WithinWidth(prev[t].emp) )
        => call[t].out = prev[t].emp

\* C5: an insert called with num_employees < MAX_ROWS leaves the counter one
\* greater, and a find of the inserted identifier called next returns the
\* inserted fields (no fopen failing on a file that is there, fields within
\* the width).
C5_InsertThenFind ==
    \A t \in Tasks :
        /\ ( pc[t] = "done" /\ call[t].op = "add" /\ call[t].n0 < MAX_ROWS )
           => num_employees = call[t].n0 + 1
        /\ ( /\ pc[t] = "done" /\ call[t].op = "get" /\ ~call[t].fault
             /\ prev[t].op = "add" /\ prev[t].st = "added" /\ ~prev[t].fault
             /\ prev[t].id = call[t].id /\ WithinWidth(prev[t].emp) )
           => call[t].out = prev[t].emp

\* C6: an insert called with num_employees >= MAX_ROWS is rejected, calls
\* write_employee_details not once, and leaves every file and the counter as
\* they were.
C6_InsertAtCapacity ==
    \A t \in Tasks :
        ( pc[t] = "done" /\ call[t].op = "add" /\ call[t].n0 >= MAX_ROWS )
        => /\ call[t].st = "full"
           /\ call[t].writes = <<>>
           /\ files = snap[t]
           /\ num_employees = call[t].n0

\* C6's case: the counter is MAX_ROWS, every slot was written by an insert,
\* and one more insert has returned.
C6_Witness ==
    \E t \in Tasks :
        /\ pc[t] = "done" /\ call[t].op = "add" /\ call[t].n0 = MAX_ROWS
        /\ \A i \in Rows : files[i].exists

\* C7: when a slot holds identifier k, delete_by_id(k) leaves that slot
\* all-empty and the counter as it was; a read of that slot right after gives
\* the all-empty record, and a second delete_by_id(k) right after reports
\* "not found" (no fopen failing on a file that is there).
C7_DeleteExisting ==
    \A t \in Tasks :
        /\ ( /\ pc[t] = "done" /\ call[t].op = "del" /\ ~call[t].fault
             /\ Matches(snap[t], call[t].id) # {} )
           => /\ SlotRec(files, Lowest(Matches(snap[t], call[t].id))) = ZeroRec
              /\ Lowest(Matches(snap[t], call[t].id)) \notin Matches(files, call[t].id)
              /\ num_employees = call[t].n0
        /\ ( /\ pc[t] = "done" /\ call[t].op = "read" /\ ~call[t].fault
             /\ prev[t].op = "del" /\ prev[t].st = "deleted" /\ ~prev[t].fault
             /\ prev[t].idx = call[t].idx )
           => call[t].out = ZeroRec
        /\ ( /\ pc[t] = "done" /\ call[t].op = "del" /\ ~call[t].fault
             /\ prev[t].op = "del" /\ prev[t].st = "deleted" /\ ~prev[t].fault
             /\ prev[t].id = call[t].id )
           => call[t].st = "notfound"

\* C8: find_by_id(id) reads slots 0, 1, ... in ascending order and returns
\* the record of the lowest slot whose identifier is id; when no slot
\* matches it has read all MAX_ROWS slots and returns the all-empty record
\* (for every store content; no fopen failing on a file that is there).
C8_FindResult ==
    \A t \in Tasks :
        ( pc[t] = "done" /\ call[t].op = "get" /\ ~call[t].fault )
        => LET M == Matches(snap[t], call[t].id) IN
           IF M # {}
           THEN /\ call[t].out = SlotRec(snap[t], Lowest(M))
                /\ call[t].reads = UpTo(Lowest(M))
           ELSE /\ call[t].out = ZeroRec
                /\ call[t].reads = UpTo(MAX_ROWS - 1)

\* C9: a read of a slot whose file cannot be opened returns the all-zero
\* record, whatever the caller's record held before.
C9_ReadUnopenable ==
    \A t \in Tasks :
        ( pc[t] = "done" /\ call[t].op = "read" /\ call[t].fail )
        => call[t].out = ZeroRec

\* C10: whenever read_employee_details has opened the file and fewer than
\* five fields could be scanned from it, the record it hands back (to a task
\* or to a scan) has all five fields empty.
C10_DecodeFailureBlank ==
    \A t \in Tasks :
        ( /\ \/ pc[t] = "done" /\ call[t].op = "read"
             \/ pc[t] \in { "get_cmp", "del_cmp" }
          /\ loc[t].opened
          /\ Scanned(files[loc[t].idx].data, 1, 1) < MAX_COLS )
        => loc[t].cur = ZeroRec

\* C10's case: two fields were scanned before the third failed, the caller's
\* record held something else before, and the record handed back is empty.
C10_Witness ==
    \E t \in Tasks :
        /\ pc[t] = "done" /\ call[t].op = "read" /\ loc[t].opened
        /\ Scanned(files[loc[t].idx].data, 1, 1) = 2
        /\ call[t].emp = Stale
        /\ loc[t].cur = ZeroRec

\* ------------------------------------------------- app_main, lines 193-205
\* Task t's call is app_main's delete_employee_by_id("EMP006"), it has come
\* back, every slot's file was there when it began and no fopen failed in it
DeleteDone(t) ==
    /\ calls = MAX_ROWS + NumAdds + 1
    /\ pc[t] = "done" /\ call[t].op = "del"
    /\ \A i \in Rows : snap[t][i].exists
    /\ ~call[t].fault

\* C11 as the specification states it: in app_main, after the ten seed
\* writes and the four inserts, delete_employee_by_id("EMP006") reports
\* "not found".
C11_DeleteNotFound == DeleteDone(1) => call[1].st = "notfound"

\* C11: in app_main, after the ten seed writes and the four inserts (which
\* write slots 0..3 only), delete_employee_by_id("EMP006") finds EMP006 in
\* slot 5, writes the all-empty record there and nowhere else, reports
\* "deleted successfully" and leaves num_employees at 4.
C11_DeleteFindsSeed ==
    DeleteDone(1) =>
        /\ call[1].st = "deleted"
        /\ call[1].idx = 5
        /\ call[1].writes = << 5 >>
        /\ files[5] = [ exists |-> TRUE, data |-> fprintf(ZeroRec) ]
        /\ \A i \in FileIdx \ { 5 } : files[i] = snap[1][i]
        /\ num_employees = NumAdds

\* C11's case: the delete of app_main has come back, slot 5 held Monoj's
\* record EMP006 when it began and is empty now.
C11_Witness ==
    /\ DeleteDone(1)
    /\ snap[1][5].data = fprintf(employees[6])
    /\ employees[6].Employee_ID = EMP006
    /\ SlotRec(files, 5) = ZeroRec

\* C12: in app_main the ten seed writes leave num_employees at 0; the k-th
\* insert (k = 0..3) then writes slot k and only slot k, with the inserted
\* record when the file opens, and leaves num_employees at k + 1; after the
\* four, slots 4..9 hold what the seed writes left there and num_employees
\* is 4.
C12_StartupInserts ==
    /\ calls <= MAX_ROWS => num_employees = 0
    /\ \A k \in 0 .. (NumAdds - 1) :
         ( calls = MAX_ROWS + k + 1 /\ pc[1] = "done" ) =>
             /\ call[1].op = "add" /\ call[1].st = "added"
             /\ call[1].n0 = k
             /\ call[1].writes = << k >>
             /\ num_employees = k + 1
             /\ \A i \in FileIdx \ { k } : files[i] = snap[1][i]
             /\ ~call[1].fail =>
                    files[k] = [ exists |-> TRUE, data |-> fprintf(new_employees[k + 1]) ]
    /\ ( calls = MAX_ROWS + NumAdds /\ pc[1] = "idle" ) =>
             /\ num_employees = NumAdds
             /\ \A i \in NumAdds .. (MAX_ROWS - 1) :
                    files[i].exists => files[i].data = fprintf(employees[i + 1])

\* C12's case: the four inserts have returned; slots 0..3 hold the four
\* inserted records, slots 4..9 the seeds EMP005..EMP010, and the counter
\* is 4.
C12_Witness ==
    /\ calls = MAX_ROWS + NumAdds /\ pc[1] = "idle"
    /\ num_employees = 4
    /\ \A i \in 0 .. 3 : SlotRec(files, i) = new_employees[i + 1]
    /\ \A i \in 4 .. 9 : SlotRec(files, i) = employees[i + 1]

\* ------------------------------------------------------ concurrent inserts
\* Task t's add_new_employee has logged the new employee, and its write
\* opened the file
Added(t) ==
    /\ pc[t] = "done" /\ call[t].op = "add" /\ call[t].st = "added"
    /\ ~call[t].fail

\* Both tasks' inserts have passed the capacity check and completed, and both
\* passed the same num_employees to write_employee_details
SameSlot(t, u) ==
    /\ t # u
    /\ Added(t) /\ Added(u)
    /\ call[t].idx = call[u].idx

\* C13: when two tasks' inserts have both completed without "maximum number
\* of employees reached" and both wrote the same slot index, that slot holds
\* the five lines of exactly one of the two records: if the records differ,
\* the other one is not in the slot it was written to.
C13_LostInsert ==
    \A t, u \in Tasks :
        SameSlot(t, u) =>
            /\ files[call[t].idx].data \in { fprintf(loc[t].emp), fprintf(loc[u].emp) }
            /\ loc[t].emp # loc[u].emp =>
                   \/ files[call[t].idx].data # fprintf(loc[t].emp)
                   \/ files[call[t].idx].data # fprintf(loc[u].emp)

\* C13's case: the two inserts (identifiers E1 and E2) both completed, both
\* wrote slot 0, and one of the two identifiers is in no slot of the store.
C13_Witness ==
    \E t, u \in Tasks :
        /\ SameSlot(t, u)
        /\ call[t].id # call[u].id
        /\ SlotRec(files, call[u].idx) = loc[u].emp
        /\ Matches(files, call[t].id) = {}

\* ---------------------------------------------- delete against a writer
EmptyFile == [ exists |-> TRUE, data |-> fprintf(ZeroRec) ]

\* C14: the write of delete_employee_by_id is a step of its own, taken after
\* the scan has let go of the mutex: it goes to the slot index at which the
\* scan read a matching identifier and puts the all-empty record there (or
\* fails to open and changes nothing), whatever that slot holds by then.
C14_DeleteNotAtomic ==
    [][ \A t \in Tasks :
          ( pc[t] = "w_open" /\ loc[t].ret = "del_ret" /\ pc'[t] = "del_ret" ) =>
              /\ loc[t].cur.Employee_ID = loc[t].id
              /\ loc[t].idx = loc[t].i
              /\ \/ files' = files
                 \/ files' = [files EXCEPT ![loc[t].i] = EmptyFile] ]_vars

\* C14's case: task 1 wrote RecA (E1) to slot 0 and its delete of E1 came
\* back "deleted" with no fopen failure; task 2's write or insert of a record
\* E2 to slot 0 succeeded after the first task's write had returned; slot 0
\* is empty and E2 is in no slot: the delete's scan read E1 in slot 0, task 2
\* then replaced it, and the delete's write destroyed task 2's record.
C14_Witness ==
    /\ prev[1].op = "write" /\ ~prev[1].fail
    /\ pc[1] = "done" /\ call[1].op = "del" /\ call[1].st = "deleted"
    /\ ~call[1].fault /\ call[1].idx = 0
    /\ pc[2] = "done" /\ call[2].st \in { "written", "added" }
    /\ ~call[2].fail /\ call[2].idx = 0
    /\ call[2].emp.Employee_ID # call[1].id
    /\ files[0] = EmptyFile
    /\ Matches(files, call[2].emp.Employee_ID) = {}

\* ------------------------------------------------------------- the counter
\* C15: no step of any task lowers num_employees.
C15_CounterMonotone == [][ num_employees' >= num_employees ]_vars

C17_DeleteFrame ==
    ( pc[1] = "done" /\ call[1].op = "del" ) =>
        LET M == Matches(snap[1], call[1].id) IN
        /\ num_employees = call[1].n0
        /\ \A i \in FileIdx :
               files[i] # snap[1][i] =>
                   M # {} /\ i = Lowest(M) /\ files[i] = EmptyFile

\* ------------------------------------------------- write that cannot open
\* C18: a write_employee_details call whose fopen fails comes back (once, with
\* the mutex released) having changed no file: the slot it was to write and
\* every other slot hold what they held at the call, and num_employees is as
\* it was.
C18_WriteOpenFailure ==
    ( pc[1] = "done" /\ call[1].op = "write" /\ call[1].fail ) =>
        /\ files = snap[1]
        /\ call[1].st = "ioerror"
        /\ call[1].writes = << call[1].idx >>
        /\ spiffs_mutex = 0
        /\ num_employees = call[1].n0

\* C18's case: the slot held a record before the call, another record was to
\* be written, fopen failed, and the slot still holds the earlier record.
C18_Witness ==
    /\ pc[1] = "done" /\ call[1].op = "write" /\ call[1].fail
    /\ snap[1][call[1].idx].exists
    /\ snap[1][call[1].idx].data # fprintf(call[1].emp)
    /\ files[call[1].idx] = snap[1][call[1].idx]

\* ------------------------------------------------ the index of an insert
\* C19: the index add_new_employee passes to write_employee_details is at
\* least 0 and less than MAX_ROWS, for any number of inserting tasks.
C19_InsertIndexInRange ==
    \A t \in Tasks :
        call[t].op = "add" =>
            \A k \in 1 .. Len(call[t].writes) : call[t].writes[k] \in Rows

\* --------------------------------------------- insert whose write fails
\* C20: an add_new_employee that passed the capacity check has raised
\* num_employees by one when it comes back, whether or not its write could
\* open the file; when it could not, every slot holds what it held at the
\* call, so the inserted identifier is in no slot it was not in before.
C20_FailedInsertCounts ==
    ( pc[1] = "done" /\ call[1].op = "add" /\ call[1].st # "full" ) =>
        /\ call[1].st = "added"
        /\ num_employees = call[1].n0 + 1
        /\ call[1].fail =>
               /\ files = snap[1]
               /\ Matches(files, call[1].id) = Matches(snap[1], call[1].id)

\* C20's case: the write of the insert could not open the file; the counter
\* has advanced, slot n0 holds what it held before and no slot holds the
\* inserted identifier.
C20_Witness ==
    /\ pc[1] = "done" /\ call[1].op = "add" /\ call[1].fail
    /\ call[1].writes = << call[1].n0 >>
    /\ num_employees = call[1].n0 + 1
    /\ files[call[1].n0] = snap[1][call[1].n0]
    /\ Matches(files, call[1].id) = {}

====
